---- MODULE Spec2Model ----
(***************************************************************************)
(* withRetry (src/src/index.js:338-361): the retry wrapper of the          *)
(* error-handler utilities, as a state machine; and the S3 and DynamoDB    *)
(* service wrappers (src/src/services), one invocation at a time, in svc.  *)
(*                                                                         *)
(* One execution of withRetry is a small sequential program: the for loop  *)
(* test, the invocation of the operation, the settling of the awaited      *)
(* promise (resolve or reject), the catch block, the setTimeout delay, and *)
(* the final throw.  Each execution owns its locals (maxRetries, delay,    *)
(* attempt, lastError); they are functions over the execution ids.         *)
(*                                                                         *)
(* The operation is the caller's: what it resolves or rejects with is      *)
(* chosen freely at each invocation.  Following the Operation contract, a  *)
(* failure value is an object with a name and an optional $retryable       *)
(* property.  trace[e] records, in order, what execution e did that an     *)
(* observer can see: invocations, outcomes, warnings, timers, and the      *)
(* final return or throw.                                                  *)
(*                                                                         *)
(* util holds the last application of extractErrorInfo, isAwsError or      *)
(* validateConfig (src/src/config/aws-config.js) to an input of a bounded  *)
(* set; app holds main and the demonstrations it awaits, one awaited call  *)
(* at a time, with the objects they upload to and delete from the bucket.  *)
(***************************************************************************)
EXTENDS Integers, Sequences, FiniteSets, TLC

VARIABLES live, pc, args, maxRetries, delay, attempt, lastError, timer,
          outcome, trace, svc, util, app

\* The state of the withRetry executions.
retryVars == <<live, pc, args, maxRetries, delay, attempt, lastError, timer,
               outcome, trace>>

vars == <<live, pc, args, maxRetries, delay, attempt, lastError, timer,
          outcome, trace, svc, util, app>>

---------------------------------------------------------------------------
(* Bounds of the model *)

\* The largest maxRetries argument a caller passes.
MaxN == 4

\* Execution ids; Spec runs execution 1 alone.
Execs == {1, 2}

\* Initial delays (ms) a caller passes.
Delays == {0, 10, 1000}

\* Names of the errors the operation throws and the values it resolves with.
Names == {"E1", "E2"}
Values == {"v1", "v2"}

---------------------------------------------------------------------------
(* Values *)

\* JavaScript's undefined: an argument left out, an unset local, a missing
\* property.
Undefined == [kind |-> "undefined"]

\* error.$retryable as the operation sets it: true, false, left out, or a
\* non-boolean object such as the SDK's { throttling: false }.
Flags == {"true", "false", "absent", "object"}

Errors == [kind : {"error"}, name : Names, retryable : Flags]

Resolved == [kind : {"value"}, val : Values] \cup {Undefined}

\* Default parameter values of withRetry(operation, maxRetries = 3, delay = 1000).
DefaultMaxRetriesOffByOne == 3 + 1
DefaultMaxRetries == 3
DefaultDelay == 1000

\* A default parameter applies when the argument is undefined.
Param(arg, default) == IF arg.kind = "undefined" THEN default ELSE arg.val

\* A number passed as an argument.
Num(n) == [kind |-> "number", val |-> n]

\* maxRetries arguments below 1, which the loop test never admits.
BelowOne == {-1, 0}

\* The arguments a caller may pass for maxRetries and for delay.
MaxRetriesArgs == {Num(n) : n \in BelowOne \cup 1..MaxN} \cup {Undefined}
DelayArgs == {Num(d) : d \in Delays} \cup {Undefined}

\* The handle of setTimeout(resolve, d), and no timer pending.
NoTimer == [armed |-> FALSE]
Armed(d) == [armed |-> TRUE, d |-> d]

\* Truthiness of error.$retryable, as `!error.$retryable` reads it.
Truthy(flag) == flag \in {"true", "object"}

\* for (...; attempt <= maxRetries; ...)
LoopCondOffByOneMore(a, max) == a <= max + 1
LoopCondOffByOneLess(a, max) == a < max
LoopCond(a, max) == a <= max

\* if (!error.$retryable && attempt < maxRetries) break;
ShouldBreakOnlyFalse(err, a, max) == err.retryable = "false" /\ a < max
ShouldBreak(err, a, max) == ~Truthy(err.retryable) /\ a < max

\* if (attempt < maxRetries) { warn; await timeout; delay *= 2 }
ShouldWaitInclusive(a, max) == a <= max
ShouldWait(a, max) == a < max

\* delay *= 2
NextDelayConstant(d) == d
NextDelay(d) == d * 2

\* lastError = error
RecordErrorWrapped(prev, err) == [err EXCEPT !.name = "RetryError"]
RecordErrorKeepFirst(prev, err) == IF prev = Undefined THEN err ELSE prev
RecordError(prev, err) == err

---------------------------------------------------------------------------
(* Events of the trace *)

EvInvoke(k) == [t |-> "invoke", k |-> k]
EvOk(k, v) == [t |-> "ok", k |-> k, v |-> v]
EvFail(k, err) == [t |-> "fail", k |-> k, v |-> err]
EvWarnNextAttempt(k, d) == [t |-> "warn", k |-> k + 1, d |-> d]
EvWarn(k, d) == [t |-> "warn", k |-> k, d |-> d]
EvTimer(d) == [t |-> "timer", d |-> d]
EvFired(d) == [t |-> "fired", d |-> d]
EvReturn(v) == [t |-> "return", v |-> v]
EvThrow(v) == [t |-> "throw", v |-> v]

---------------------------------------------------------------------------
(* The service wrappers: values *)

\* The longest keys array passed to getMultipleDownloadSignedUrls.
MaxKeys == 3

BucketNames == {"b1"}
KeyNames == {"k1", "k2", "k3", "k4"}

\* Responses of the SDK clients, and the errors their calls reject with.
SdkResponses == {"r1", "r2"}
SdkErrors == [kind : {"error"}, name : {"E1"}, retryable : {"true", "false", "absent"}]

\* Wrappers that send one command to a client.
SendWrappers ==
    {"listBuckets", "createBucket", "uploadObject", "downloadObject",
     "deleteObject", "putItem", "getItem", "deleteItem", "scanTable",
     "queryItems"}

\* Wrappers that presign one command.
SignWrappers == {"getDownloadSignedUrl", "getUploadSignedUrl"}

\* The command each wrapper builds.
CommandOf(fn) ==
    CASE fn = "listBuckets" -> "ListBucketsCommand"
      [] fn = "createBucket" -> "CreateBucketCommand"
      [] fn = "uploadObject" -> "PutObjectCommand"
      [] fn = "downloadObject" -> "GetObjectCommand"
      [] fn = "deleteObject" -> "DeleteObjectCommand"
      [] fn = "getDownloadSignedUrl" -> "GetObjectCommand"
      [] fn = "getUploadSignedUrl" -> "PutObjectCommand"
      [] fn = "getMultipleDownloadSignedUrls" -> "GetObjectCommand"
      [] fn = "putItem" -> "PutCommand"
      [] fn = "getItem" -> "GetCommand"
      [] fn = "deleteItem" -> "DeleteCommand"
      [] fn = "scanTable" -> "ScanCommand"
      [] fn = "queryItems" -> "QueryCommand"

\* The client each wrapper sends to.
ClientOf(fn) ==
    IF fn \in {"putItem", "getItem", "deleteItem", "scanTable", "queryItems"}
    THEN "dynamoDBDocClient"
    ELSE "s3Client"

\* s3Client.send(command) / dynamoDBDocClient.send(command)
SendRequest(fn) ==
    [call |-> "send", client |-> ClientOf(fn), cmd |-> CommandOf(fn)]

\* getSignedUrl(s3Client, command, { expiresIn })
SignRequest(cmd, bucket, key, contentType, expiresIn) ==
    [call |-> "getSignedUrl", client |-> "s3Client", cmd |-> cmd,
     bucket |-> bucket, key |-> key, contentType |-> contentType,
     expiresIn |-> expiresIn]

\* The URL the presigner resolves with: it is for the command's method,
\* bucket and key, and carries the expiry asked for.
Presign(req) ==
    [kind |-> "url",
     method |-> IF req.cmd = "GetObjectCommand" THEN "GET" ELSE "PUT",
     bucket |-> req.bucket, key |-> req.key, expiresIn |-> req.expiresIn]

\* expiresIn = 3600, contentType = 'application/octet-stream'
DefaultExpiresIn == 3600
DefaultContentType == "application/octet-stream"

ExpiresInArgs == {Num(1800), Undefined}
ContentTypeArgs == {[kind |-> "string", val |-> "application/pdf"], Undefined}

\* What each sending wrapper returns of the response.
Returned(fn, resp) ==
    CASE fn = "listBuckets" -> [kind |-> "value", of |-> <<resp, "Buckets">>]
      [] fn = "getItem" -> [kind |-> "value", of |-> <<resp, "Item">>]
      [] fn \in {"scanTable", "queryItems"} ->
            [kind |-> "value",
             items |-> <<resp, "Items">>,
             count |-> <<resp, "Count">>,
             lastEvaluatedKey |-> <<resp, "LastEvaluatedKey">>]
      [] OTHER -> [kind |-> "value", of |-> <<resp>>]

\* throw error; in a catch block
RethrowWithoutFlag(err) == [err EXCEPT !.retryable = "absent"]
Rethrow(err) == err

\* console.error(<the wrapper's message>, error)
Logged(fn, err) == [fn |-> fn, err |-> err]

PendingSlot == [st |-> "pending"]
OkSlot(v) == [st |-> "ok", v |-> v]
FailedSlot(err) == [st |-> "failed", v |-> err]

\* The keys arrays a caller passes: any array of at most MaxKeys key names.
KeyArrays == UNION {[1..n -> KeyNames] : n \in 0..MaxKeys}

\* Promise.all's results, in the order of the promises: the { key, url } each
\* closure returns.
ResultsByCompletion(keys, slots, done) ==
    [i \in 1..Len(keys) |-> [key |-> keys[i], url |-> slots[done[i]].v]]
Results(keys, slots, done) ==
    [i \in 1..Len(keys) |-> [key |-> keys[i], url |-> slots[i].v]]

\* results.forEach(({ key, url }) => { signedUrls[key] = url; }), from {}.
RECURSIVE AssignAll(_, _, _)
AssignAll(obj, results, i) ==
    IF i > Len(results) THEN obj
    ELSE AssignAll((results[i].key :> results[i].url) @@ obj, results, i + 1)

\* An object with the properties of the map m.
Object(m) == [kind |-> "object", props |-> m]

\* No wrapper has been called.
SvcIdle ==
    [fn |-> "none", pc |-> "idle", bucket |-> Undefined, keys |-> <<>>,
     expiresIn |-> Undefined, reqs |-> <<>>, slots |-> <<>>, done |-> <<>>, log |-> <<>>,
     out |-> Undefined]

---------------------------------------------------------------------------
(* The error utilities and the configuration: values *)

Null == [kind |-> "null"]

\* A string value of a property or of an environment variable.
Str(x) == [kind |-> "string", val |-> x]

\* AWS SDK errors as extractErrorInfo and isAwsError receive them: name,
\* message, $retryable, and $metadata (left out, null, or an object whose
\* httpStatusCode and requestId may be missing).
AwsNames == {"NoSuchBucket", "AccessDenied"}
ErrorCodes == AwsNames \cup {"NoSuchKey"}
Messages == {"m1", "m2"}
Metadatas ==
    {Undefined, Null} \cup
    [kind : {"object"},
     httpStatusCode : {Num(404), Num(500), Undefined},
     requestId : {Str("req-1"), Undefined}]
AwsErrors ==
    [kind : {"error"}, name : AwsNames, message : Messages, retryable : Flags,
     metadata : Metadatas]

\* obj.p: undefined when the object has no such property.
Prop(obj, p) == IF p \in DOMAIN obj THEN obj[p] ELSE Undefined

\* obj?.p: undefined when obj is undefined or null.
OptChain(obj, p) ==
    IF obj.kind \in {"undefined", "null"} THEN Undefined ELSE Prop(obj, p)

\* What reading a property of undefined or null throws.
TypeError == [kind |-> "TypeError"]

\* extractErrorInfo reading error.$metadata.httpStatusCode without `?.`.
extractErrorInfoUnguarded(error) ==
    IF Prop(error, "metadata").kind \in {"undefined", "null"}
    THEN TypeError
    ELSE [name |-> Prop(error, "name"),
          code |-> Prop(Prop(error, "metadata"), "httpStatusCode"),
          requestId |-> Prop(Prop(error, "metadata"), "requestId"),
          message |-> Prop(error, "message"),
          retryable |-> Prop(error, "retryable")]

\* extractErrorInfo(error)
extractErrorInfo(error) ==
    [name |-> Prop(error, "name"),
     code |-> OptChain(Prop(error, "metadata"), "httpStatusCode"),
     requestId |-> OptChain(Prop(error, "metadata"), "requestId"),
     message |-> Prop(error, "message"),
     retryable |-> Prop(error, "retryable")]

\* isAwsError answering true for the name of any error it knows.
isAwsErrorAnyCode(error, errorCode) == Prop(error, "name") \in ErrorCodes

\* isAwsError(error, errorCode): error.name === errorCode
isAwsError(error, errorCode) == Prop(error, "name") = errorCode

\* process.env: the variables the program reads, each unset, empty or set.
EnvNames == {"AWS_REGION", "S3_BUCKET_NAME", "DYNAMODB_TABLE_NAME"}
EnvValues == {Undefined, Str(""), Str("x")}
Envs == [EnvNames -> EnvValues]

\* !v for an environment variable: unset or the empty string.
Falsy(v) == v.kind \in {"undefined", "null"} \/ (v.kind = "string" /\ v.val = "")

\* aws-config.js holds validateConfig twice, with Spanish and with English
\* messages; either may be the one a module imports.
Locales == {"es", "en"}

\* const required = ['AWS_REGION'];
Required == <<"AWS_REGION">>

\* required.filter((key) => !process.env[key])
Missing(env) ==
    LET IsMissing(key) == Falsy(env[key])
    IN  SelectSeq(Required, IsMissing)

\* missing.join(', '): the pieces of the joined string.
RECURSIVE Join(_, _)
Join(names, sep) ==
    IF Len(names) = 0 THEN <<>>
    ELSE IF Len(names) = 1 THEN <<names[1]>>
    ELSE <<names[1], sep>> \o Join(Tail(names), sep)

\* The text before ${missing.join(', ')} in the template literal.
MissingPrefix(locale) ==
    IF locale = "es" THEN "Variables de entorno faltantes: "
    ELSE "Missing environment variables: "

\* validateConfig(), as defined for the locale: returns, or throws an Error
\* whose message is the prefix followed by the joined names.
validateConfig(locale, env) ==
    IF Len(Missing(env)) > 0
    THEN [kind |-> "thrown",
          error |-> [kind |-> "error", name |-> "Error",
                     message |-> <<MissingPrefix(locale)>> \o Join(Missing(env), ", ")]]
    ELSE [kind |-> "returned"]

\* awsConfig: region: process.env.AWS_REGION || 'us-east-1'
awsConfig(env) ==
    [region |-> IF Falsy(env["AWS_REGION"]) THEN Str("us-east-1")
                ELSE env["AWS_REGION"]]

\* No utility has been called.
UtilIdle == [fn |-> "none", inp |-> <<>>, out |-> Undefined]

---------------------------------------------------------------------------
(* main and the demonstrations (src/src/index.js,                          *)
(* src/src/examples/signed-urls-advanced.js): values                       *)

DemoFns ==
    {"demonstrateS3", "demonstrateSignedUrls", "demonstrateDynamoDB",
     "demonstrateAdvancedSignedUrls"}

\* process.exit(1)
ExitFailure == 1

\* One awaited call of a demonstration: the service function, the object key
\* it is about, and the helper of signed-urls-advanced.js it is made in.
Awaited(op, key, via) == [op |-> op, key |-> key, via |-> via]

\* The demonstrations without their cleanup: the deletes are left out.
CallsNoCleanup(fn) ==
    CASE fn = "demonstrateS3" ->
           <<Awaited("listBuckets", "", "withRetry"),
             Awaited("uploadObject", "test-file.txt", ""),
             Awaited("downloadObject", "test-file.txt", "")>>
      [] fn = "demonstrateSignedUrls" ->
           <<Awaited("uploadObject", "signed-url-example.txt", ""),
             Awaited("getDownloadSignedUrl", "signed-url-example.txt", ""),
             Awaited("getDownloadSignedUrl", "signed-url-example.txt", ""),
             Awaited("getUploadSignedUrl", "uploaded-via-signed-url.txt", ""),
             Awaited("uploadObject", "another-file.txt", ""),
             Awaited("uploadObject", "image.jpg", ""),
             Awaited("getMultipleDownloadSignedUrls", "", "")>>
      [] fn = "demonstrateDynamoDB" ->
           <<Awaited("putItem", "item", ""),
             Awaited("getItem", "item", ""),
             Awaited("scanTable", "", ""),
             Awaited("deleteItem", "item", ""),
             Awaited("getItem", "item", "")>>
      [] fn = "demonstrateAdvancedSignedUrls" ->
           <<Awaited("uploadObject", "documents/report.pdf", ""),
             Awaited("uploadObject", "images/photo1.jpg", ""),
             Awaited("uploadObject", "images/photo2.jpg", ""),
             Awaited("getDownloadSignedUrl", "documents/report.pdf",
                     "createTemporaryDownloadLink"),
             Awaited("getUploadSignedUrl", "uploads/nuevo-documento.pdf",
                     "createUploadLinkWithValidation"),
             Awaited("getDownloadSignedUrl", "thumbnails/photo1.jpg",
                     "createImageGalleryUrls"),
             Awaited("getDownloadSignedUrl", "images/photo1.jpg",
                     "createImageGalleryUrls"),
             Awaited("getDownloadSignedUrl", "thumbnails/photo2.jpg",
                     "createImageGalleryUrls"),
             Awaited("getDownloadSignedUrl", "images/photo2.jpg",
                     "createImageGalleryUrls"),
             Awaited("Promise.all", "", "createBulkDownloadUrls"),
             Awaited("getDownloadSignedUrl", "documents/report.pdf",
                     "createAPIIntegrationUrl")>>

\* The calls each demonstration awaits, in program order, when its bucket or
\* table is configured.
Calls(fn) ==
    CASE fn = "demonstrateS3" ->
           <<Awaited("listBuckets", "", "withRetry"),
             Awaited("uploadObject", "test-file.txt", ""),
             Awaited("downloadObject", "test-file.txt", ""),
             Awaited("deleteObject", "test-file.txt", "")>>
      [] fn = "demonstrateSignedUrls" ->
           <<Awaited("uploadObject", "signed-url-example.txt", ""),
             Awaited("getDownloadSignedUrl", "signed-url-example.txt", ""),
             Awaited("getDownloadSignedUrl", "signed-url-example.txt", ""),
             Awaited("getUploadSignedUrl", "uploaded-via-signed-url.txt", ""),
             Awaited("uploadObject", "another-file.txt", ""),
             Awaited("uploadObject", "image.jpg", ""),
             Awaited("getMultipleDownloadSignedUrls", "", ""),
             Awaited("deleteObject", "signed-url-example.txt", ""),
             Awaited("deleteObject", "another-file.txt", ""),
             Awaited("deleteObject", "image.jpg", "")>>
      [] fn = "demonstrateDynamoDB" ->
           <<Awaited("putItem", "item", ""),
             Awaited("getItem", "item", ""),
             Awaited("scanTable", "", ""),
             Awaited("deleteItem", "item", ""),
             Awaited("getItem", "item", "")>>
      [] fn = "demonstrateAdvancedSignedUrls" ->
           <<Awaited("uploadObject", "documents/report.pdf", ""),
             Awaited("uploadObject", "images/photo1.jpg", ""),
             Awaited("uploadObject", "images/photo2.jpg", ""),
             Awaited("getDownloadSignedUrl", "documents/report.pdf",
                     "createTemporaryDownloadLink"),
             Awaited("getUploadSignedUrl", "uploads/nuevo-documento.pdf",
                     "createUploadLinkWithValidation"),
             Awaited("getDownloadSignedUrl", "thumbnails/photo1.jpg",
                     "createImageGalleryUrls"),
             Awaited("getDownloadSignedUrl", "images/photo1.jpg",
                     "createImageGalleryUrls"),
             Awaited("getDownloadSignedUrl", "thumbnails/photo2.jpg",
                     "createImageGalleryUrls"),
             Awaited("getDownloadSignedUrl", "images/photo2.jpg",
                     "createImageGalleryUrls"),
             Awaited("Promise.all", "", "createBulkDownloadUrls"),
             Awaited("getDownloadSignedUrl", "documents/report.pdf",
                     "createAPIIntegrationUrl"),
             Awaited("deleteObject", "documents/report.pdf", ""),
             Awaited("deleteObject", "images/photo1.jpg", ""),
             Awaited("deleteObject", "images/photo2.jpg", "")>>

\* The environment variable whose absence makes the demonstration return at
\* once (demonstrateS3 always lists the buckets).
Needs(fn) ==
    IF fn = "demonstrateDynamoDB" THEN "DYNAMODB_TABLE_NAME" ELSE "S3_BUCKET_NAME"

\* No call of the demonstration has failed; the call that failed.
NoFailure == [i |-> 0, op |-> "", key |-> ""]
Failure(i, c) == [i |-> i, op |-> c.op, key |-> c.key]

\* main has not been started.
AppIdle ==
    [status |-> "idle",
     env |-> [v \in EnvNames |-> Undefined],
     at |-> [fn |-> "main", i |-> 0],
     events |-> <<>>,
     log |-> <<>>,
     uploaded |-> [fn \in DemoFns |-> {}],
     deleted |-> [fn \in DemoFns |-> {}],
     failed |-> [fn \in DemoFns |-> NoFailure],
     objects |-> {},
     exit |-> Undefined]

\* console.error(<message of fn>, extractErrorInfo(error))
ErrorLogged(fn, err) == [fn |-> fn, info |-> extractErrorInfo(err)]

\* What a successful call leaves in the bucket.
Effect(a, fn, c) ==
    CASE c.op = "uploadObject" ->
           [a EXCEPT !.uploaded[fn] = @ \cup {c.key}, !.objects = @ \cup {c.key}]
      [] c.op = "deleteObject" ->
           [a EXCEPT !.deleted[fn] = @ \cup {c.key}, !.objects = @ \ {c.key}]
      [] OTHER -> a

\* Control enters a demonstration and runs to its first await, or leaves one
\* and runs on in its caller: demonstrateSignedUrls is the last statement of
\* demonstrateS3, and main awaits demonstrateS3, demonstrateDynamoDB and
\* demonstrateAdvancedSignedUrls one after the other.
RECURSIVE Enter(_, _), Leave(_, _)
Enter(a, fn) ==
    LET b == [a EXCEPT !.events = Append(@, [t |-> "start", fn |-> fn])]
    IN  IF fn # "demonstrateS3" /\ Falsy(a.env[Needs(fn)])
        THEN Leave(b, fn)
        ELSE [b EXCEPT !.at = [fn |-> fn, i |-> 1]]
Leave(a, fn) ==
    LET b == [a EXCEPT !.events = Append(@, [t |-> "end", fn |-> fn])]
    IN  CASE fn = "demonstrateSignedUrls" -> Leave(b, "demonstrateS3")
          [] fn = "demonstrateS3" -> Enter(b, "demonstrateDynamoDB")
          [] fn = "demonstrateDynamoDB" -> Enter(b, "demonstrateAdvancedSignedUrls")
          [] OTHER -> [b EXCEPT !.status = "done", !.at = [fn |-> "main", i |-> 0]]

\* The awaited call fulfils: its effect, then the next statement.
AfterOk(a) ==
    LET fn == a.at.fn
        i == a.at.i
        b == Effect(a, fn, Calls(fn)[i])
    IN  IF fn = "demonstrateS3" /\ (i = Len(Calls(fn)) \/ Falsy(a.env[Needs(fn)]))
        THEN Enter(b, "demonstrateSignedUrls")
        ELSE IF i = Len(Calls(fn)) THEN Leave(b, fn)
        ELSE [b EXCEPT !.at.i = i + 1]

\* The helper's catch, which logs and rethrows, when the call is made in one.
HelperLogged(c, err) ==
    IF c.via \in {"", "withRetry"} THEN <<>> ELSE <<ErrorLogged(c.via, err)>>

\* A demonstration whose catch rethrows: the error reaches main's catch,
\* which logs it and exits.
CaughtAndRethrown(a, err) ==
    [a EXCEPT !.failed[a.at.fn] = Failure(a.at.i, Calls(a.at.fn)[a.at.i]),
              !.log = @ \o HelperLogged(Calls(a.at.fn)[a.at.i], err)
                        \o <<ErrorLogged(a.at.fn, err), ErrorLogged("main", err)>>,
              !.status = "exited",
              !.exit = Num(ExitFailure)]

\* The awaited call rejects with err: the catch of the demonstration logs it
\* and the demonstration returns normally.
Caught(a, err) ==
    Leave([a EXCEPT !.failed[a.at.fn] = Failure(a.at.i, Calls(a.at.fn)[a.at.i]),
                    !.log = @ \o HelperLogged(Calls(a.at.fn)[a.at.i], err)
                              \o <<ErrorLogged(a.at.fn, err)>>],
          a.at.fn)

---------------------------------------------------------------------------
(* Initial state: no execution has been started *)

InitLocals ==
    /\ pc = [e \in Execs |-> "idle"]
    /\ args = [e \in Execs |-> [n |-> Undefined, d |-> Undefined]]
    /\ maxRetries = [e \in Execs |-> 0]
    /\ delay = [e \in Execs |-> 0]
    /\ attempt = [e \in Execs |-> 0]
    /\ lastError = [e \in Execs |-> Undefined]
    /\ timer = [e \in Execs |-> NoTimer]
    /\ outcome = [e \in Execs |-> Undefined]
    /\ trace = [e \in Execs |-> <<>>]
    /\ util = UtilIdle
    /\ app = AppIdle

Init ==
    /\ live = {1}
    /\ InitLocals
    /\ svc = SvcIdle

---------------------------------------------------------------------------
(* Actions *)

\* withRetry(operation, n, d) is called: parameters bound (defaults applied),
\* `let lastError;` and the loop initialiser `let attempt = 1`.
CallWith(e, ns, ds) ==
    /\ e \in live
    /\ pc[e] = "idle"
    /\ \E n \in ns, d \in ds :
          /\ args' = [args EXCEPT ![e] = [n |-> n, d |-> d]]
          /\ maxRetries' = [maxRetries EXCEPT ![e] = Param(n, DefaultMaxRetries)]
          /\ delay' = [delay EXCEPT ![e] = Param(d, DefaultDelay)]
    /\ lastError' = [lastError EXCEPT ![e] = Undefined]
    /\ attempt' = [attempt EXCEPT ![e] = 1]
    /\ pc' = [pc EXCEPT ![e] = "loop"]
    /\ UNCHANGED <<svc, live, timer, outcome, trace>>

Call(e) == CallWith(e, MaxRetriesArgs, DelayArgs) /\ UNCHANGED <<util, app>>

\* The loop test holds: `operation()` is invoked and its promise awaited.
Invoke(e) ==
    /\ pc[e] = "loop"
    /\ LoopCond(attempt[e], maxRetries[e])
    /\ trace' = [trace EXCEPT ![e] = Append(@, EvInvoke(attempt[e]))]
    /\ pc' = [pc EXCEPT ![e] = "await"]
    /\ UNCHANGED <<util, app, svc, live, args, maxRetries, delay, attempt, lastError, timer, outcome>>

\* The loop test fails: control leaves the loop.
LoopExit(e) ==
    /\ pc[e] = "loop"
    /\ ~LoopCond(attempt[e], maxRetries[e])
    /\ pc' = [pc EXCEPT ![e] = "after"]
    /\ UNCHANGED <<util, app, svc, live, args, maxRetries, delay, attempt, lastError, timer, outcome, trace>>

\* The awaited promise resolves with v but the value is dropped and the loop
\* goes on (`await operation()` without the return).
ResolveNoReturn(e, v) ==
    /\ pc[e] = "await"
    /\ trace' = [trace EXCEPT ![e] = Append(@, EvOk(attempt[e], v))]
    /\ attempt' = [attempt EXCEPT ![e] = @ + 1]
    /\ pc' = [pc EXCEPT ![e] = "loop"]
    /\ UNCHANGED <<util, app, svc, live, args, maxRetries, delay, lastError, timer, outcome>>

\* The awaited promise resolves with v: `return await operation()`.
Resolve(e, v) ==
    /\ pc[e] = "await"
    /\ trace' = [trace EXCEPT ![e] = @ \o <<EvOk(attempt[e], v), EvReturn(v)>>]
    /\ outcome' = [outcome EXCEPT ![e] = v]
    /\ pc' = [pc EXCEPT ![e] = "returned"]
    /\ UNCHANGED <<util, app, svc, live, args, maxRetries, delay, attempt, lastError, timer>>

\* The catch block with the delay promise created but not awaited: the timer
\* is armed and the loop goes on at once.
RejectNoAwait(e, err) ==
    /\ pc[e] = "await"
    /\ lastError' = [lastError EXCEPT ![e] = RecordError(@, err)]
    /\ IF ShouldBreak(err, attempt[e], maxRetries[e])
       THEN /\ trace' = [trace EXCEPT ![e] = Append(@, EvFail(attempt[e], err))]
            /\ pc' = [pc EXCEPT ![e] = "after"]
            /\ UNCHANGED <<attempt, timer, delay>>
       ELSE IF ShouldWait(attempt[e], maxRetries[e])
       THEN /\ trace' = [trace EXCEPT ![e] = @ \o
                            <<EvFail(attempt[e], err),
                              EvWarn(attempt[e], delay[e]),
                              EvTimer(delay[e])>>]
            /\ timer' = [timer EXCEPT ![e] = Armed(delay[e])]
            /\ delay' = [delay EXCEPT ![e] = NextDelay(@)]
            /\ attempt' = [attempt EXCEPT ![e] = @ + 1]
            /\ pc' = [pc EXCEPT ![e] = "loop"]
       ELSE /\ trace' = [trace EXCEPT ![e] = Append(@, EvFail(attempt[e], err))]
            /\ attempt' = [attempt EXCEPT ![e] = @ + 1]
            /\ pc' = [pc EXCEPT ![e] = "loop"]
            /\ UNCHANGED <<timer, delay>>
    /\ UNCHANGED <<util, app, svc, live, args, maxRetries, outcome>>

\* The awaited promise rejects with err: the catch block.
Reject(e, err) ==
    /\ pc[e] = "await"
    /\ lastError' = [lastError EXCEPT ![e] = RecordError(@, err)]
    /\ IF ShouldBreak(err, attempt[e], maxRetries[e])
       THEN \* break
            /\ trace' = [trace EXCEPT ![e] = Append(@, EvFail(attempt[e], err))]
            /\ pc' = [pc EXCEPT ![e] = "after"]
            /\ UNCHANGED <<attempt, timer>>
       ELSE IF ShouldWait(attempt[e], maxRetries[e])
       THEN \* console.warn, then setTimeout(resolve, delay)
            /\ trace' = [trace EXCEPT ![e] = @ \o
                            <<EvFail(attempt[e], err),
                              EvWarn(attempt[e], delay[e]),
                              EvTimer(delay[e])>>]
            /\ timer' = [timer EXCEPT ![e] = Armed(delay[e])]
            /\ pc' = [pc EXCEPT ![e] = "sleep"]
            /\ UNCHANGED attempt
       ELSE \* end of the catch block, then attempt++
            /\ trace' = [trace EXCEPT ![e] = Append(@, EvFail(attempt[e], err))]
            /\ attempt' = [attempt EXCEPT ![e] = @ + 1]
            /\ pc' = [pc EXCEPT ![e] = "loop"]
            /\ UNCHANGED timer
    /\ UNCHANGED <<util, app, svc, live, args, maxRetries, delay, outcome>>

\* The timer fires, with the current delay kept in one variable shared by all
\* executions (a module-level `delay`).
TimerFireSharedDelay(e) ==
    /\ pc[e] = "sleep"
    /\ timer[e].armed
    /\ trace' = [trace EXCEPT ![e] = Append(@, EvFired(timer[e].d))]
    /\ timer' = [timer EXCEPT ![e] = NoTimer]
    /\ delay' = [f \in Execs |-> NextDelay(delay[f])]
    /\ attempt' = [attempt EXCEPT ![e] = @ + 1]
    /\ pc' = [pc EXCEPT ![e] = "loop"]
    /\ UNCHANGED <<util, app, svc, live, args, maxRetries, lastError, outcome>>

\* The timer fires, with the retry budget counted down instead of the attempt
\* counted up (`maxRetries--`).
TimerFireCountdown(e) ==
    /\ pc[e] = "sleep"
    /\ timer[e].armed
    /\ trace' = [trace EXCEPT ![e] = Append(@, EvFired(timer[e].d))]
    /\ timer' = [timer EXCEPT ![e] = NoTimer]
    /\ delay' = [delay EXCEPT ![e] = NextDelay(@)]
    /\ maxRetries' = [maxRetries EXCEPT ![e] = @ - 1]
    /\ pc' = [pc EXCEPT ![e] = "loop"]
    /\ UNCHANGED <<util, app, svc, live, args, attempt, lastError, outcome>>

\* The timer fires but the delay promise is never resolved.
TimerFireNeverResolves(e) ==
    /\ pc[e] = "sleep"
    /\ timer[e].armed
    /\ timer' = [timer EXCEPT ![e] = NoTimer]
    /\ UNCHANGED <<util, app, svc, live, pc, args, maxRetries, delay, attempt, lastError, outcome, trace>>

\* The timer fires: the delay promise resolves, `delay *= 2`, then attempt++.
TimerFire(e) ==
    /\ pc[e] = "sleep"
    /\ timer[e].armed
    /\ trace' = [trace EXCEPT ![e] = Append(@, EvFired(timer[e].d))]
    /\ timer' = [timer EXCEPT ![e] = NoTimer]
    /\ delay' = [delay EXCEPT ![e] = NextDelay(@)]
    /\ attempt' = [attempt EXCEPT ![e] = @ + 1]
    /\ pc' = [pc EXCEPT ![e] = "loop"]
    /\ UNCHANGED <<util, app, svc, live, args, maxRetries, lastError, outcome>>

\* The final statement returns lastError instead of throwing it.
ThrowLastSwallowed(e) ==
    /\ pc[e] = "after"
    /\ trace' = [trace EXCEPT ![e] = Append(@, EvReturn(lastError[e]))]
    /\ outcome' = [outcome EXCEPT ![e] = lastError[e]]
    /\ pc' = [pc EXCEPT ![e] = "returned"]
    /\ UNCHANGED <<util, app, svc, live, args, maxRetries, delay, attempt, lastError, timer>>

\* throw lastError;
ThrowLast(e) ==
    /\ pc[e] = "after"
    /\ trace' = [trace EXCEPT ![e] = Append(@, EvThrow(lastError[e]))]
    /\ outcome' = [outcome EXCEPT ![e] = lastError[e]]
    /\ pc' = [pc EXCEPT ![e] = "thrown"]
    /\ UNCHANGED <<util, app, svc, live, args, maxRetries, delay, attempt, lastError, timer>>

Next ==
    \/ \E e \in Execs : Call(e)
    \/ \E e \in Execs : Invoke(e)
    \/ \E e \in Execs : LoopExit(e)
    \/ \E e \in Execs, v \in Resolved : Resolve(e, v)
    \/ \E e \in Execs, err \in Errors : Reject(e, err)
    \/ \E e \in Execs : TimerFire(e)
    \/ \E e \in Execs : ThrowLast(e)

Spec == Init /\ [][Next]_vars

---------------------------------------------------------------------------
(* Several executions in flight at once (fan-out, parallel dispatch): every *)
(* execution id is live and their steps interleave freely.  The inputs are  *)
(* drawn from smaller sets than in Spec.                                    *)

\* The largest maxRetries argument of the concurrent executions.
ParMaxN == 2

ParMaxRetriesArgs == {Num(n) : n \in 0..ParMaxN}
ParDelayArgs == {Num(10), Num(1000)}
ParErrors == [kind : {"error"}, name : {"E1"}, retryable : Flags]
ParResolved == {[kind |-> "value", val |-> "v1"]}

InitPar ==
    /\ live = Execs
    /\ InitLocals
    /\ svc = SvcIdle

CallPar(e) == CallWith(e, ParMaxRetriesArgs, ParDelayArgs) /\ UNCHANGED <<util, app>>

NextPar ==
    \/ \E e \in Execs : CallPar(e)
    \/ \E e \in Execs : Invoke(e)
    \/ \E e \in Execs : LoopExit(e)
    \/ \E e \in Execs, v \in ParResolved : Resolve(e, v)
    \/ \E e \in Execs, err \in ParErrors : Reject(e, err)
    \/ \E e \in Execs : TimerFire(e)
    \/ \E e \in Execs : ThrowLast(e)

SpecPar == InitPar /\ [][NextPar]_vars

\* The promise of the invocation in flight settles, one way or the other.
Settle(e) ==
    \/ \E v \in Resolved : Resolve(e, v)
    \/ \E err \in Errors : Reject(e, err)

\* A step of execution e after its call.
Progress(e) ==
    \/ Invoke(e)
    \/ LoopExit(e)
    \/ Settle(e)
    \/ TimerFire(e)
    \/ ThrowLast(e)

\* Every invocation of the operation eventually settles, every timer
\* eventually fires, and the event loop runs every continuation that is ready.
SpecLive == Init /\ [][Next]_vars /\ \A e \in Execs : WF_vars(Progress(e))

---------------------------------------------------------------------------
(* The service wrappers: one invocation of one wrapper *)

\* A sending wrapper is called: the command is built and sent.
SendCall(fn) ==
    /\ svc.pc = "idle"
    /\ fn \in SendWrappers
    /\ svc' = [svc EXCEPT !.fn = fn, !.pc = "pending",
                          !.reqs = <<SendRequest(fn)>>,
                          !.slots = <<PendingSlot>>]
    /\ UNCHANGED <<retryVars, util, app>>

\* getDownloadSignedUrl(bucket, key, expiresIn) or
\* getUploadSignedUrl(bucket, key, contentType, expiresIn) is called.
SignCall(fn) ==
    /\ svc.pc = "idle"
    /\ fn \in SignWrappers
    /\ \E b \in BucketNames, k \in KeyNames, c \in ContentTypeArgs,
          x \in ExpiresInArgs :
          svc' = [svc EXCEPT
                    !.fn = fn, !.pc = "pending", !.bucket = b, !.keys = <<k>>,
                    !.expiresIn = x,
                    !.reqs = <<SignRequest(
                                 CommandOf(fn), b, k,
                                 IF fn = "getUploadSignedUrl"
                                 THEN Param(c, DefaultContentType)
                                 ELSE Undefined,
                                 Param(x, DefaultExpiresIn))>>,
                    !.slots = <<PendingSlot>>]
    /\ UNCHANGED <<retryVars, util, app>>

\* getMultipleDownloadSignedUrls signing one key at a time: only the first
\* key's request is issued by the call (a for loop awaiting each URL).
MultipleCallOneAtATime ==
    /\ svc.pc = "idle"
    /\ \E b \in BucketNames, ks \in KeyArrays, x \in ExpiresInArgs :
          svc' = [svc EXCEPT
                    !.fn = "getMultipleDownloadSignedUrls",
                    !.bucket = b, !.keys = ks, !.expiresIn = x,
                    !.reqs = IF ks = <<>> THEN <<>>
                             ELSE <<SignRequest("GetObjectCommand", b, ks[1],
                                        Undefined, Param(x, DefaultExpiresIn))>>,
                    !.slots = IF ks = <<>> THEN <<>> ELSE <<PendingSlot>>,
                    !.pc = IF ks = <<>> THEN "returned" ELSE "pending",
                    !.out = IF ks = <<>> THEN Object(<<>>) ELSE Undefined]
    /\ UNCHANGED <<retryVars, util, app>>

\* getMultipleDownloadSignedUrls(bucket, keys, expiresIn) is called: keys.map
\* runs every closure up to its await, so getSignedUrl has been called for
\* every key when Promise.all is awaited.  Promise.all of no promise is
\* already fulfilled.
MultipleCall ==
    /\ svc.pc = "idle"
    /\ \E b \in BucketNames, ks \in KeyArrays, x \in ExpiresInArgs :
          svc' = [svc EXCEPT
                    !.fn = "getMultipleDownloadSignedUrls",
                    !.bucket = b, !.keys = ks, !.expiresIn = x,
                    !.reqs = [i \in 1..Len(ks) |->
                                SignRequest("GetObjectCommand", b, ks[i],
                                            Undefined, Param(x, DefaultExpiresIn))],
                    !.slots = [i \in 1..Len(ks) |-> PendingSlot],
                    !.pc = IF ks = <<>> THEN "returned" ELSE "pending",
                    !.out = IF ks = <<>> THEN Object(<<>>) ELSE Undefined]
    /\ UNCHANGED <<retryVars, util, app>>

\* The SDK call of slot i resolves.
SdkResolve(i) ==
    /\ i \in 1..Len(svc.slots)
    /\ svc.slots[i] = PendingSlot
    /\ \E resp \in IF svc.reqs[i].call = "getSignedUrl"
                    THEN {Presign(svc.reqs[i])}
                    ELSE SdkResponses :
          LET slots == [svc.slots EXCEPT ![i] = OkSlot(resp)]
              done == Append(svc.done, i)
          IN  svc' =
                IF svc.fn = "getMultipleDownloadSignedUrls"
                THEN IF svc.pc = "pending"
                        /\ \A j \in 1..Len(slots) : slots[j].st = "ok"
                     THEN \* Promise.all fulfils: the object is built and returned
                          [svc EXCEPT
                             !.slots = slots, !.done = done, !.pc = "returned",
                             !.out = Object(AssignAll(<<>>,
                                        Results(svc.keys, slots, done), 1))]
                     ELSE [svc EXCEPT !.slots = slots, !.done = done]
                ELSE IF svc.fn = "downloadObject"
                THEN \* the body stream is read next
                     [svc EXCEPT !.slots = slots, !.done = done,
                                 !.pc = "streaming"]
                ELSE IF svc.fn \in SignWrappers
                THEN [svc EXCEPT !.slots = slots, !.done = done,
                                 !.pc = "returned", !.out = resp]
                ELSE [svc EXCEPT !.slots = slots, !.done = done,
                                 !.pc = "returned",
                                 !.out = Returned(svc.fn, resp)]
    /\ UNCHANGED <<retryVars, util, app>>

\* The SDK call of slot i rejects with err, with Promise.allSettled in place
\* of Promise.all: getMultipleDownloadSignedUrls waits for every promise and
\* returns the URLs of the keys that were signed.
SdkRejectAllSettled(i, err) ==
    /\ i \in 1..Len(svc.slots)
    /\ svc.slots[i] = PendingSlot
    /\ LET slots == [svc.slots EXCEPT ![i] = FailedSlot(err)]
           done == Append(svc.done, i)
           signed == {j \in 1..Len(slots) : slots[j].st = "ok"}
       IN  svc' =
             IF svc.fn = "getMultipleDownloadSignedUrls"
             THEN IF svc.pc = "pending"
                     /\ \A j \in 1..Len(slots) : slots[j] # PendingSlot
                  THEN [svc EXCEPT
                          !.slots = slots, !.done = done, !.pc = "returned",
                          !.log = Append(@, Logged("getDownloadSignedUrl", err)),
                          !.out = Object([key \in {svc.keys[j] : j \in signed} |->
                                    slots[CHOOSE j \in signed : svc.keys[j] = key].v])]
                  ELSE [svc EXCEPT
                          !.slots = slots, !.done = done,
                          !.log = Append(@, Logged("getDownloadSignedUrl", err))]
             ELSE [svc EXCEPT
                     !.slots = slots, !.done = done, !.pc = "thrown",
                     !.log = Append(@, Logged(svc.fn, err)),
                     !.out = Rethrow(err)]
    /\ UNCHANGED <<retryVars, util, app>>

\* The SDK call of slot i rejects with err: the wrapper's catch logs and
\* rethrows.  In getMultipleDownloadSignedUrls the catch of
\* getDownloadSignedUrl runs for every rejection, and the first rejection
\* rejects Promise.all, whose catch logs and rethrows in turn.
SdkReject(i, err) ==
    /\ i \in 1..Len(svc.slots)
    /\ svc.slots[i] = PendingSlot
    /\ LET slots == [svc.slots EXCEPT ![i] = FailedSlot(err)]
           done == Append(svc.done, i)
       IN  svc' =
             IF svc.fn = "getMultipleDownloadSignedUrls"
             THEN IF svc.pc = "pending"
                  THEN [svc EXCEPT
                          !.slots = slots, !.done = done, !.pc = "thrown",
                          !.log = @ \o <<Logged("getDownloadSignedUrl", err),
                                         Logged(svc.fn, Rethrow(err))>>,
                          !.out = Rethrow(Rethrow(err))]
                  ELSE [svc EXCEPT
                          !.slots = slots, !.done = done,
                          !.log = Append(@, Logged("getDownloadSignedUrl", err))]
             ELSE [svc EXCEPT
                     !.slots = slots, !.done = done, !.pc = "thrown",
                     !.log = Append(@, Logged(svc.fn, err)),
                     !.out = Rethrow(err)]
    /\ UNCHANGED <<retryVars, util, app>>

\* downloadObject: the body stream ends and its chunks are returned with the
\* response's metadata and content type.
StreamEnd ==
    /\ svc.pc = "streaming"
    /\ svc' = [svc EXCEPT
                 !.pc = "returned",
                 !.out = [kind |-> "value",
                          content |-> <<svc.slots[1].v, "Body">>,
                          metadata |-> <<svc.slots[1].v, "Metadata">>,
                          contentType |-> <<svc.slots[1].v, "ContentType">>]]
    /\ UNCHANGED <<retryVars, util, app>>

\* downloadObject: the body stream emits 'error'.
StreamError(err) ==
    /\ svc.pc = "streaming"
    /\ svc' = [svc EXCEPT
                 !.pc = "thrown",
                 !.log = Append(@, Logged(svc.fn, err)),
                 !.out = Rethrow(err)]
    /\ UNCHANGED <<retryVars, util, app>>

InitSvc ==
    /\ live = {}
    /\ InitLocals
    /\ svc = SvcIdle

NextSvc ==
    \/ \E fn \in SendWrappers : SendCall(fn)
    \/ \E fn \in SignWrappers : SignCall(fn)
    \/ MultipleCall
    \/ \E i \in 1..MaxKeys : SdkResolve(i)
    \/ \E i \in 1..MaxKeys, err \in SdkErrors : SdkReject(i, err)
    \/ StreamEnd
    \/ \E err \in SdkErrors : StreamError(err)

SpecSvc == InitSvc /\ [][NextSvc]_vars

---------------------------------------------------------------------------
(* The error utilities and validateConfig, applied to bounded inputs *)

\* extractErrorInfo(error) is called.
ExtractCall ==
    /\ \E error \in AwsErrors :
          util' = [fn |-> "extractErrorInfo", inp |-> <<error>>,
                   out |-> extractErrorInfo(error)]
    /\ UNCHANGED <<retryVars, svc, app>>

\* isAwsError(error, errorCode) is called.
IsAwsErrorCall ==
    /\ \E error \in AwsErrors, errorCode \in ErrorCodes :
          util' = [fn |-> "isAwsError", inp |-> <<error, Str(errorCode)>>,
                   out |-> isAwsError(error, errorCode)]
    /\ UNCHANGED <<retryVars, svc, app>>

\* validateConfig() is called, in an environment that awsConfig was also
\* built from.
ValidateCall ==
    /\ \E locale \in Locales, env \in Envs :
          util' = [fn |-> "validateConfig",
                   inp |-> <<[locale |-> locale, env |-> env,
                             region |-> awsConfig(env).region]>>,
                   out |-> validateConfig(locale, env)]
    /\ UNCHANGED <<retryVars, svc, app>>

InitUtil ==
    /\ live = {}
    /\ InitLocals
    /\ svc = SvcIdle

NextUtil ==
    \/ ExtractCall
    \/ IsAwsErrorCall
    \/ ValidateCall

SpecUtil == InitUtil /\ [][NextUtil]_vars

---------------------------------------------------------------------------
(* main *)

\* What listBuckets resolves with: the Buckets of a response.
ListBucketsResults == {Returned("listBuckets", resp) : resp \in SdkResponses}

\* main is started: validateConfig() throws and main's catch logs and exits,
\* or demonstrateS3 is entered and calls withRetry(() => listBuckets()).
MainStart ==
    /\ app.status = "idle"
    /\ \E env \in Envs, locale \in Locales :
          LET r == validateConfig(locale, env)
              a == [app EXCEPT !.env = env]
          IN  IF r.kind = "thrown"
              THEN /\ app' = [a EXCEPT !.status = "exited",
                                       !.exit = Num(ExitFailure),
                                       !.log = <<ErrorLogged("main", r.error)>>]
                   /\ UNCHANGED <<retryVars, svc>>
              ELSE /\ app' = Enter([a EXCEPT !.status = "running"], "demonstrateS3")
                   /\ CallWith(1, {Undefined}, {Undefined})
    /\ UNCHANGED util

\* The withRetry around listBuckets has returned or thrown.
ListBucketsDone ==
    /\ app.status = "running"
    /\ Calls(app.at.fn)[app.at.i].via = "withRetry"
    /\ pc[1] \in {"returned", "thrown"}
    /\ app' = IF pc[1] = "returned" THEN AfterOk(app) ELSE Caught(app, outcome[1])
    /\ UNCHANGED <<retryVars, svc, util>>

\* The service call a demonstration awaits fulfils.
CallOk ==
    /\ app.status = "running"
    /\ Calls(app.at.fn)[app.at.i].via # "withRetry"
    /\ app' = AfterOk(app)
    /\ UNCHANGED <<retryVars, svc, util>>

\* The service call a demonstration awaits rejects with err.
CallFail(err) ==
    /\ app.status = "running"
    /\ Calls(app.at.fn)[app.at.i].via # "withRetry"
    /\ app' = Caught(app, err)
    /\ UNCHANGED <<retryVars, svc, util>>

NextApp ==
    \/ MainStart
    \/ Invoke(1)
    \/ LoopExit(1)
    \/ \E v \in ListBucketsResults : Resolve(1, v)
    \/ \E err \in SdkErrors : Reject(1, err)
    \/ TimerFire(1)
    \/ ThrowLast(1)
    \/ ListBucketsDone
    \/ CallOk
    \/ \E err \in SdkErrors : CallFail(err)

SpecApp == Init /\ [][NextApp]_vars

---------------------------------------------------------------------------
(* Observations on the trace of one execution *)

IsInvoke(ev) == ev.t = "invoke"
IsOk(ev) == ev.t = "ok"
IsFail(ev) == ev.t = "fail"
IsSettle(ev) == ev.t \in {"ok", "fail"}
IsWarn(ev) == ev.t = "warn"
IsTimer(ev) == ev.t = "timer"
IsFired(ev) == ev.t = "fired"

\* Number of invocations of the operation made so far.
Invocations(e) == Len(SelectSeq(trace[e], IsInvoke))

\* Outcomes of the invocations, in order.
Settled(e) == SelectSeq(trace[e], IsSettle)

\* Delays that have been waited in full, in order.
Waited(e) == SelectSeq(trace[e], IsFired)

Warnings(e) == SelectSeq(trace[e], IsWarn)

Started(e) == pc[e] # "idle"
Terminated(e) == pc[e] \in {"returned", "thrown"}

\* The initial delay the execution was started with.
InitialDelay(e) == Param(args[e].d, DefaultDelay)

Last(s) == s[Len(s)]

RECURSIVE Pow2(_)
Pow2(n) == IF n = 0 THEN 1 ELSE 2 * Pow2(n - 1)

TypeOK ==
    /\ live \subseteq Execs
    /\ pc \in [Execs -> {"idle", "loop", "await", "sleep", "after", "returned", "thrown"}]
    /\ \A e \in Execs :
          /\ maxRetries[e] \in BelowOne \cup 1..MaxN
          /\ attempt[e] \in 0..(MaxN + 1)
          /\ lastError[e] \in Errors \cup {Undefined}

---------------------------------------------------------------------------
(* Vocabulary of the claims *)

\* A failure whose retryable flag is truthy / falsy or absent.
RetryableFailure(ev) == ev.t = "fail" /\ ev.v.retryable \in {"true", "object"}
NonRetryableFailure(ev) == ev.t = "fail" /\ ev.v.retryable \in {"false", "absent"}

\* Every invocation settled so far failed with a truthy retryable flag.
AlwaysRetryable(e) ==
    \A i \in 1..Len(Settled(e)) : RetryableFailure(Settled(e)[i])

\* Number of invocations among the first i events of the trace.
InvocationsUpTo(e, i) == Len(SelectSeq(SubSeq(trace[e], 1, i), IsInvoke))

\* No warning was emitted, no timer armed and no delay waited.
NoDelayNoWarning(e) ==
    \A i \in 1..Len(trace[e]) : trace[e][i].t \notin {"warn", "timer", "fired"}

---------------------------------------------------------------------------
(* C1: with maxAttempts = n >= 1, whatever the outcomes of the operation,  *)
(* it is invoked at most n times.                                          *)
C1_AtMostMaxAttempts ==
    \A e \in live :
        (Started(e) /\ maxRetries[e] >= 1) => Invocations(e) <= maxRetries[e]

\* An execution used its whole budget of three attempts and ended.
C1_Witness ==
    \E e \in live :
        /\ Terminated(e)
        /\ maxRetries[e] = 3
        /\ Invocations(e) = 3

(* C2: for n >= 1, an operation that fails every time with a truthy        *)
(* retryable flag is invoked exactly n times, and the call then fails with *)
(* the error thrown by the n-th invocation.                                *)
C2_AlwaysRetryableExhausts ==
    \A e \in live :
        (maxRetries[e] >= 1 /\ Terminated(e) /\ AlwaysRetryable(e)) =>
            /\ Invocations(e) = maxRetries[e]
            /\ Len(Settled(e)) = maxRetries[e]
            /\ pc[e] = "thrown"
            /\ Last(Settled(e)).k = maxRetries[e]
            /\ outcome[e] = Last(Settled(e)).v

\* Three retryable failures with different errors, then the call has failed.
C2_Witness ==
    \E e \in live :
        /\ pc[e] = "thrown"
        /\ maxRetries[e] = 3
        /\ AlwaysRetryable(e)
        /\ Len(Settled(e)) = 3
        /\ Settled(e)[1].v # Settled(e)[3].v

(* C3: when attempt k succeeds, the call returns that attempt's result and *)
(* the operation has been invoked exactly k times: nothing (invocation,    *)
(* delay, warning) follows the success but the return.                     *)
C3_SuccessReturnsAtOnce ==
    \A e \in live :
        \A i \in 1..Len(trace[e]) :
            IsOk(trace[e][i]) =>
                /\ trace[e][i].k <= maxRetries[e]
                /\ InvocationsUpTo(e, i) = trace[e][i].k
                /\ Invocations(e) = trace[e][i].k
                /\ Len(trace[e]) = i + 1
                /\ trace[e][i + 1] = EvReturn(trace[e][i].v)
                /\ pc[e] = "returned"
                /\ outcome[e] = trace[e][i].v

\* Success on attempt 2 of 4, after one retryable failure.
C3_Witness ==
    \E e \in live :
        /\ pc[e] = "returned"
        /\ maxRetries[e] = 4
        /\ Len(Settled(e)) = 2
        /\ RetryableFailure(Settled(e)[1])
        /\ Settled(e)[2].t = "ok"
        /\ outcome[e] = [kind |-> "value", val |-> "v2"]

(* C4: no delay precedes attempt 1, and the delay waited immediately       *)
(* before attempt k >= 2 is exactly d * 2^(k-2), d the initial delay.      *)
C4_DelayDoubles ==
    \A e \in live :
        /\ \A i \in 1..Len(trace[e]) :
              IsInvoke(trace[e][i]) =>
                  /\ InvocationsUpTo(e, i) = trace[e][i].k
                  /\ IF trace[e][i].k = 1
                     THEN i = 1
                     ELSE /\ i > 1
                          /\ IsFired(trace[e][i - 1])
                          /\ trace[e][i - 1].d =
                                InitialDelay(e) * Pow2(trace[e][i].k - 2)
        /\ \A j \in 1..Len(Waited(e)) :
              Waited(e)[j].d = InitialDelay(e) * Pow2(j - 1)

\* Attempt 4 has started after delays of 10, 20 and 40 ms.
C4_Witness ==
    \E e \in live :
        /\ InitialDelay(e) = 10
        /\ Invocations(e) = 4
        /\ Len(Waited(e)) = 3
        /\ Waited(e)[1].d = 10
        /\ Waited(e)[2].d = 20
        /\ Waited(e)[3].d = 40

(* C5: fast-fail: when an attempt j < maxAttempts fails with a falsy or    *)
(* absent retryable flag, nothing follows but the failure of the call with *)
(* that attempt's error: no invocation, no delay, no warning.              *)
C5_FastFail ==
    \A e \in live :
        \A i \in 1..Len(trace[e]) :
            (NonRetryableFailure(trace[e][i]) /\ trace[e][i].k < maxRetries[e]) =>
                /\ Len(trace[e]) <= i + 1
                /\ Len(trace[e]) = i + 1 => trace[e][i + 1] = EvThrow(trace[e][i].v)
                /\ pc[e] \in {"after", "thrown"}
                /\ ~timer[e].armed
                /\ pc[e] = "thrown" => outcome[e] = trace[e][i].v

\* n = 3, attempt 1 fails without a retryable flag: one invocation, failed.
C5_Witness ==
    \E e \in live :
        /\ pc[e] = "thrown"
        /\ maxRetries[e] = 3
        /\ Invocations(e) = 1
        /\ Settled(e)[1].t = "fail"
        /\ Settled(e)[1].v.retryable = "absent"
        /\ outcome[e] = Settled(e)[1].v

(* C6: with maxAttempts = 1 the operation is invoked exactly once whatever *)
(* the retryable flag; a failure is raised with no delay and no warning,   *)
(* and the error raised is that invocation's.                              *)
C6_SingleAttempt ==
    \A e \in live :
        (Started(e) /\ maxRetries[e] = 1) =>
            /\ Invocations(e) <= 1
            /\ NoDelayNoWarning(e)
            /\ pc[e] # "sleep"
            /\ Terminated(e) => Invocations(e) = 1 /\ Len(Settled(e)) = 1
            /\ (Terminated(e) /\ Settled(e)[1].t = "fail") =>
                  /\ pc[e] = "thrown"
                  /\ outcome[e] = Settled(e)[1].v
                  /\ Last(trace[e]) = EvThrow(Settled(e)[1].v)

\* n = 1 and a retryable failure: failed after one invocation.
C6_Witness ==
    \E e \in live :
        /\ pc[e] = "thrown"
        /\ maxRetries[e] = 1
        /\ Invocations(e) = 1
        /\ Settled(e)[1].t = "fail"
        /\ Settled(e)[1].v.retryable = "true"

(* C7: when an execution with maxAttempts >= 1 fails, by fast-fail or by   *)
(* exhaustion, the error raised is exactly the error of the most recent    *)
(* invocation.                                                             *)
C7_RaisesLastError ==
    \A e \in live :
        (pc[e] = "thrown" /\ maxRetries[e] >= 1) =>
            /\ Len(Settled(e)) >= 1
            /\ Last(Settled(e)).t = "fail"
            /\ outcome[e] = Last(Settled(e)).v

\* Failed after two attempts whose errors differ.
C7_Witness ==
    \E e \in live :
        /\ pc[e] = "thrown"
        /\ Len(Settled(e)) = 2
        /\ Settled(e)[1].v.name = "E1"
        /\ Settled(e)[2].v.name = "E2"
        /\ outcome[e].name = "E2"

(* C8: no error is swallowed: an execution returns normally only if an     *)
(* invocation succeeded, with exactly that invocation's value; if every    *)
(* invocation made failed, the call fails.                                 *)
C8_NeverSwallows ==
    \A e \in live :
        /\ pc[e] = "returned" =>
              /\ Len(Settled(e)) >= 1
              /\ Last(Settled(e)).t = "ok"
              /\ outcome[e] = Last(Settled(e)).v
        /\ (Terminated(e) /\ \A i \in 1..Len(Settled(e)) : Settled(e)[i].t = "fail")
              => pc[e] = "thrown"

\* An execution whose every invocation failed has ended, after a retry.
C8_Witness ==
    \E e \in live :
        /\ Terminated(e)
        /\ Len(Settled(e)) >= 2
        /\ \A i \in 1..Len(Settled(e)) : Settled(e)[i].t = "fail"

(* C9 as stated: every value withRetry raises was thrown by an invocation  *)
(* of the operation made during the same execution.                        *)
C9_Original ==
    \A e \in live :
        pc[e] = "thrown" =>
            \E i \in 1..Len(trace[e]) :
                IsFail(trace[e][i]) /\ trace[e][i].v = outcome[e]

(* C9 amended: with maxAttempts >= 1, every value withRetry raises was     *)
(* thrown by an invocation of the operation made during the same execution.*)
C9_NoNewError ==
    \A e \in live :
        (pc[e] = "thrown" /\ maxRetries[e] >= 1) =>
            \E i \in 1..Len(trace[e]) :
                IsFail(trace[e][i]) /\ trace[e][i].v = outcome[e]

\* A failed execution with at least one attempt allowed.
C9_Witness ==
    \E e \in live :
        /\ pc[e] = "thrown"
        /\ maxRetries[e] >= 1
        /\ outcome[e] \in Errors

(* C10: withRetry(op, 3, 1000) makes 3 retries: an operation that keeps    *)
(* failing with retryable errors is invoked 4 times in total, the first    *)
(* retry coming after a 1000 ms delay.                                     *)
C10_ThreeRetries ==
    \A e \in live :
        (/\ args[e].n = Num(3)
         /\ args[e].d = Num(1000)
         /\ Terminated(e)
         /\ AlwaysRetryable(e)) =>
            /\ Len(Waited(e)) >= 1
            /\ Waited(e)[1].d = 1000
            /\ Invocations(e) = 4

---------------------------------------------------------------------------
(* More vocabulary of the claims *)

\* Number of events of kind t among the first i events of the trace.
CountUpTo(e, i, t) ==
    Cardinality({j \in 1..i : trace[e][j].t = t})

\* Invocations started and not yet settled after the first i events.
InFlightUpTo(e, i) ==
    CountUpTo(e, i, "invoke") - CountUpTo(e, i, "ok") - CountUpTo(e, i, "fail")

RECURSIVE SumDelays(_)
SumDelays(w) == IF w = <<>> THEN 0 ELSE Head(w).d + SumDelays(Tail(w))

(* C11: attempts are strictly sequential: attempt k+1 never starts before  *)
(* attempt k has settled nor before the delay after its failure has fully  *)
(* elapsed, and two invocations are never in flight at once.               *)
C11_StrictlySequential ==
    \A e \in live :
        \A i \in 1..Len(trace[e]) :
            /\ InFlightUpTo(e, i) \in {0, 1}
            /\ IsInvoke(trace[e][i]) =>
                  /\ InFlightUpTo(e, i - 1) = 0
                  /\ CountUpTo(e, i, "fail") = trace[e][i].k - 1
                  /\ CountUpTo(e, i, "timer") = CountUpTo(e, i, "fired")
                  /\ CountUpTo(e, i, "fired") = trace[e][i].k - 1

\* The third attempt is in flight, after two failures and two full delays.
C11_Witness ==
    \E e \in live :
        /\ pc[e] = "await"
        /\ Invocations(e) = 3
        /\ Len(Settled(e)) = 2
        /\ Len(Waited(e)) = 2

(* C14: exactly one warning is emitted immediately before each retry       *)
(* delay, carrying the number of the attempt that just failed and the      *)
(* delay about to be waited; warnings and delays are equal in number; no   *)
(* warning on success, on fast-fail or after the final attempt fails.      *)
C14_WarningBeforeEachDelay ==
    \A e \in live :
        /\ \A i \in 1..Len(trace[e]) :
              /\ IsWarn(trace[e][i]) =>
                    /\ i > 1
                    /\ RetryableFailure(trace[e][i - 1])
                    /\ trace[e][i - 1].k = trace[e][i].k
                    /\ trace[e][i].k = InvocationsUpTo(e, i)
                    /\ trace[e][i].k < maxRetries[e]
                    /\ i < Len(trace[e])
                    /\ trace[e][i + 1] = EvTimer(trace[e][i].d)
              /\ IsTimer(trace[e][i]) =>
                    /\ i > 1
                    /\ trace[e][i - 1].t = "warn"
                    /\ trace[e][i - 1].d = trace[e][i].d
              /\ IsFired(trace[e][i]) =>
                    /\ i > 1
                    /\ trace[e][i - 1] = EvTimer(trace[e][i].d)
        /\ Len(Warnings(e)) = Len(SelectSeq(trace[e], IsTimer))
        /\ Terminated(e) => Len(Warnings(e)) = Len(Waited(e))
        /\ Terminated(e) => Len(Warnings(e)) = Invocations(e) - 1 \/ Invocations(e) = 0

\* Two warnings, for attempts 1 and 2 with 10 and 20 ms, then the final
\* attempt failed without one.
C14_Witness ==
    \E e \in live :
        /\ pc[e] = "thrown"
        /\ maxRetries[e] = 3
        /\ Warnings(e) = <<EvWarn(1, 10), EvWarn(2, 20)>>
        /\ Invocations(e) = 3

(* C15: when the first k-1 invocations fail with retryable errors and the  *)
(* k-th succeeds, the total delay waited is d * (2^(k-1) - 1); for         *)
(* withRetry(op, 3, 10) with two failures then success it is 30 ms, with   *)
(* the third call's value returned after 3 invocations.                    *)
C15_TotalDelay ==
    \A e \in live :
        pc[e] = "returned" =>
            /\ \A i \in 1..(Len(Settled(e)) - 1) : RetryableFailure(Settled(e)[i])
            /\ SumDelays(Waited(e)) =
                  InitialDelay(e) * (Pow2(Len(Settled(e)) - 1) - 1)
            /\ (/\ args[e].n = Num(3)
                /\ args[e].d = Num(10)
                /\ Len(Settled(e)) = 3) =>
                  /\ SumDelays(Waited(e)) = 30
                  /\ Invocations(e) = 3
                  /\ outcome[e] = Settled(e)[3].v

\* withRetry(op, 3, 10): two retryable failures, then "v1" on the third call.
C15_Witness ==
    \E e \in live :
        /\ pc[e] = "returned"
        /\ args[e].n = Num(3)
        /\ args[e].d = Num(10)
        /\ Len(Settled(e)) = 3
        /\ SumDelays(Waited(e)) = 30
        /\ outcome[e] = [kind |-> "value", val |-> "v1"]

(* C16: called with the operation alone, withRetry behaves as with         *)
(* maxAttempts = 3 and initial delay 1000 ms: an always-retryable failing  *)
(* operation is invoked exactly 3 times, with delays of 1000 then 2000 ms. *)
C16_Defaults ==
    \A e \in live :
        (Started(e) /\ args[e].n = Undefined /\ args[e].d = Undefined) =>
            /\ maxRetries[e] = 3
            /\ Invocations(e) <= 3
            /\ \A j \in 1..Len(Waited(e)) : Waited(e)[j].d = 1000 * j
            /\ (Terminated(e) /\ AlwaysRetryable(e)) =>
                  /\ Invocations(e) = 3
                  /\ Waited(e) = <<EvFired(1000), EvFired(2000)>>

\* withRetry(op): three retryable failures, the call has failed.
C16_Witness ==
    \E e \in live :
        /\ pc[e] = "thrown"
        /\ args[e].n = Undefined
        /\ args[e].d = Undefined
        /\ AlwaysRetryable(e)
        /\ Invocations(e) = 3

(* C17: the retry policy is immutable during an execution: from the first  *)
(* attempt to termination maxAttempts and the initial delay the execution  *)
(* was started with do not change.                                         *)
C17_PolicyImmutable ==
    [][\A e \in live :
          Started(e) =>
              /\ maxRetries'[e] = maxRetries[e]
              /\ args'[e] = args[e]
              /\ delay'[e] # delay[e] =>
                    /\ attempt'[e] = attempt[e] + 1
                    /\ delay'[e] = 2 * delay[e]]_vars

\* A delay has been waited and the current delay doubled, in an execution
\* started with maxRetries = 3.
C17_Witness ==
    \E e \in live :
        /\ maxRetries[e] = 3
        /\ InitialDelay(e) = 10
        /\ delay[e] = 20
        /\ attempt[e] = 2

---------------------------------------------------------------------------
(* The three ways an execution ends *)

EndedBySuccess(e) ==
    /\ pc[e] = "returned"
    /\ Len(Settled(e)) >= 1
    /\ Last(Settled(e)).t = "ok"

EndedByFastFail(e) ==
    /\ pc[e] = "thrown"
    /\ Len(Settled(e)) >= 1
    /\ NonRetryableFailure(Last(Settled(e)))
    /\ Last(Settled(e)).k < maxRetries[e]

EndedByExhaustion(e) ==
    /\ pc[e] = "thrown"
    /\ Len(Settled(e)) >= 1
    /\ Last(Settled(e)).t = "fail"
    /\ Last(Settled(e)).k = maxRetries[e]
    /\ Invocations(e) = maxRetries[e]

WaysEnded(e) ==
    {w \in {"success", "fast-fail", "exhaustion"} :
        \/ w = "success" /\ EndedBySuccess(e)
        \/ w = "fast-fail" /\ EndedByFastFail(e)
        \/ w = "exhaustion" /\ EndedByExhaustion(e)}

(* C13: if every invocation eventually settles and every timer eventually  *)
(* fires, every execution with maxAttempts >= 1 eventually terminates, in  *)
(* exactly one of three ways: success, fast-fail, exhaustion.              *)
C13_Terminates ==
    /\ \A e \in Execs :
          (e \in live /\ Started(e) /\ maxRetries[e] >= 1) ~> Terminated(e)
    /\ [](\A e \in live :
            (Terminated(e) /\ maxRetries[e] >= 1) => Cardinality(WaysEnded(e)) = 1)

\* An execution of three attempts ended by fast-fail on its second attempt.
C13_Witness ==
    \E e \in live :
        /\ maxRetries[e] = 3
        /\ Terminated(e)
        /\ WaysEnded(e) = {"fast-fail"}
        /\ Invocations(e) = 2

---------------------------------------------------------------------------
(* Executions side by side *)

\* Everything execution e owns.
Locals(e) ==
    <<pc[e], args[e], maxRetries[e], delay[e], attempt[e], lastError[e],
      timer[e], outcome[e], trace[e]>>

\* An outcome as the retry policy may see it.
Shape(ev) ==
    IF ev.t = "ok" THEN "ok"
    ELSE IF RetryableFailure(ev) THEN "retryable" ELSE "non-retryable"

ShapeSeq(s) == [i \in 1..Len(s) |-> Shape(s[i])]

\* An event without the value or error it carries.
Ctl(ev) ==
    CASE ev.t \in {"ok", "fail"} -> [t |-> ev.t, k |-> ev.k]
      [] ev.t \in {"return", "throw"} -> [t |-> ev.t]
      [] OTHER -> ev

Control(e) == [i \in 1..Len(trace[e]) |-> Ctl(trace[e][i])]

IsPrefix(s, t) == Len(s) <= Len(t) /\ \A i \in 1..Len(s) : s[i] = t[i]

(* C12: executions in flight at once share no mutable state: a step of one *)
(* leaves everything the others own unchanged, and under every             *)
(* interleaving each execution's invocations, delays, attempt counter and  *)
(* final outcome are what they are when it runs alone with the same        *)
(* operation outcomes.                                                     *)
C12_NoSharedState ==
    /\ [][\A e \in live : \A f \in live \ {e} :
              Locals(e)' # Locals(e) => Locals(f)' = Locals(f)]_vars
    /\ [](\A e \in live : \A f \in live :
              (/\ Terminated(e)
               /\ Terminated(f)
               /\ args[e] = args[f]
               /\ Settled(e) = Settled(f)) => Locals(e) = Locals(f))
    /\ [](/\ C1_AtMostMaxAttempts
          /\ C2_AlwaysRetryableExhausts
          /\ C3_SuccessReturnsAtOnce
          /\ C4_DelayDoubles
          /\ C7_RaisesLastError
          /\ C11_StrictlySequential)

\* Two executions with different initial delays are both waiting, each for
\* its own delay.
C12_Witness ==
    /\ live = {1, 2}
    /\ pc[1] = "sleep"
    /\ pc[2] = "sleep"
    /\ InitialDelay(1) = 10
    /\ InitialDelay(2) = 1000
    /\ timer[1] = Armed(10)
    /\ timer[2] = Armed(1000)

(* C18: control flow depends on an error only through the truthiness of    *)
(* its retryable flag: two executions with the same maxAttempts and delay  *)
(* whose outcomes agree on success/failure and on flag truthiness at every *)
(* attempt perform the same invocations, delays and warnings.              *)
C18_OnlyTruthinessMatters ==
    \A e \in live : \A f \in live :
        (/\ maxRetries[e] = maxRetries[f]
         /\ InitialDelay(e) = InitialDelay(f)
         /\ Started(e)
         /\ Started(f)) =>
            \* at the same point after the same outcomes: the same past
            /\ (pc[e] = pc[f] /\ ShapeSeq(Settled(e)) = ShapeSeq(Settled(f))) =>
                  /\ Invocations(e) = Invocations(f)
                  /\ Waited(e) = Waited(f)
                  /\ Warnings(e) = Warnings(f)
                  /\ Control(e) = Control(f)
                  /\ attempt[e] = attempt[f]
                  /\ delay[e] = delay[f]
            \* f ended after outcomes that e has seen too: e went no further
            /\ (/\ Terminated(f)
                /\ IsPrefix(ShapeSeq(Settled(f)), ShapeSeq(Settled(e)))) =>
                  /\ Len(Settled(e)) = Len(Settled(f))
                  /\ Invocations(e) = Invocations(f)
                  /\ IsPrefix(Control(e), Control(f))

\* Both executions have ended after a delay and two attempts each, on errors
\* whose flags differ while agreeing in truthiness.
C18_Witness ==
    /\ live = {1, 2}
    /\ Terminated(1)
    /\ Terminated(2)
    /\ maxRetries[1] = maxRetries[2]
    /\ InitialDelay(1) = InitialDelay(2)
    /\ Len(Settled(1)) = 2
    /\ Len(Settled(2)) = 2
    /\ \A i \in 1..2 : Settled(1)[i].t = "fail" /\ Settled(2)[i].t = "fail"
    /\ Settled(1)[1].v.retryable = "true"
    /\ Settled(2)[1].v.retryable = "object"
    /\ Settled(1)[2].v.retryable = "false"
    /\ Settled(2)[2].v.retryable = "absent"

---------------------------------------------------------------------------
(* The service wrappers: claims *)

SvcCalled == svc.pc # "idle"

\* The positions, in completion order, of the SDK calls that failed.
FailedAt == {j \in 1..Len(svc.done) : svc.slots[svc.done[j]].st = "failed"}

\* The error of the SDK call that failed first.
FirstSdkError ==
    svc.slots[svc.done[CHOOSE j \in FailedAt : \A h \in FailedAt : j <= h]].v

\* When an SDK call has failed, the wrapper has logged its error and then
\* thrown the same value; the first failure is the one thrown.
LogsAndRethrows ==
    FailedAt # {} =>
        /\ svc.pc = "thrown"
        /\ svc.out = FirstSdkError
        /\ svc.out.retryable = FirstSdkError.retryable
        /\ Len(svc.log) >= 1
        /\ svc.log[1].err = FirstSdkError
        /\ \A j \in FailedAt :
              \E l \in 1..Len(svc.log) : svc.log[l].err = svc.slots[svc.done[j]].v
        /\ svc.fn # "getMultipleDownloadSignedUrls" =>
              svc.log = <<Logged(svc.fn, FirstSdkError)>>

(* C19 as stated: every service wrapper makes exactly one SDK call per     *)
(* invocation, and when that call fails it logs and re-throws the same     *)
(* error value.                                                            *)
C19_Original ==
    SvcCalled => (Len(svc.reqs) = 1 /\ LogsAndRethrows)

(* C19 amended: every service wrapper other than                           *)
(* getMultipleDownloadSignedUrls makes exactly one SDK call per invocation *)
(* (that one makes one getSignedUrl call per key); when an SDK call fails  *)
(* the wrapper logs and then re-throws the same error value, retryable     *)
(* flag included.                                                          *)
C19_OneCallAndRethrow ==
    SvcCalled =>
        /\ svc.fn # "getMultipleDownloadSignedUrls" => Len(svc.reqs) = 1
        /\ svc.fn = "getMultipleDownloadSignedUrls" => Len(svc.reqs) = Len(svc.keys)
        /\ LogsAndRethrows

\* uploadObject has failed with the retryable error its send rejected with.
C19_Witness ==
    /\ svc.fn = "uploadObject"
    /\ svc.pc = "thrown"
    /\ svc.slots[1].st = "failed"
    /\ svc.out = [kind |-> "error", name |-> "E1", retryable |-> "true"]

\* No key occurs twice in the array.
DistinctKeys(ks) == \A i \in 1..Len(ks) : \A j \in 1..Len(ks) : ks[i] = ks[j] => i = j

\* The download URL for (bucket, key, expiresIn), expiresIn defaulting to 3600.
ExpectedUrl(bucket, key, expiresIn) ==
    [kind |-> "url", method |-> "GET", bucket |-> bucket, key |-> key,
     expiresIn |-> IF expiresIn = Undefined THEN 3600 ELSE expiresIn.val]

(* C20: for distinct keys getMultipleDownloadSignedUrls returns an object  *)
(* with exactly one entry per key and no other, each key mapped to the URL *)
(* generated for that same (bucket, key, expiresIn), whatever the order in *)
(* which the signing operations complete.                                  *)
C20_OneEntryPerKey ==
    (/\ svc.fn = "getMultipleDownloadSignedUrls"
     /\ svc.pc = "returned"
     /\ DistinctKeys(svc.keys)) =>
        /\ svc.out.kind = "object"
        /\ DOMAIN svc.out.props = {svc.keys[i] : i \in 1..Len(svc.keys)}
        /\ Cardinality(DOMAIN svc.out.props) = Len(svc.keys)
        /\ \A i \in 1..Len(svc.keys) :
              svc.out.props[svc.keys[i]] =
                  ExpectedUrl(svc.bucket, svc.keys[i], svc.expiresIn)

\* Three distinct keys, signed in the order third, first, second.
C20_Witness ==
    /\ svc.fn = "getMultipleDownloadSignedUrls"
    /\ svc.pc = "returned"
    /\ svc.keys = <<"k1", "k2", "k3">>
    /\ svc.done = <<3, 1, 2>>

---------------------------------------------------------------------------
(* C24 as stated: with maxAttempts = n >= 1, in every reachable state      *)
(* (taken from the first invocation on) the number of delays waited is at  *)
(* most n - 1 and at most the number of invocations minus one; a failure   *)
(* on attempt n is never followed by a delay; at termination delays =      *)
(* invocations - 1.                                                        *)
C24_Original ==
    \A e \in live :
        (Started(e) /\ maxRetries[e] >= 1) =>
            /\ Len(Waited(e)) <= maxRetries[e] - 1
            /\ (Invocations(e) >= 1 => Len(Waited(e)) <= Invocations(e) - 1)
            /\ \A i \in 1..Len(trace[e]) :
                  (IsFail(trace[e][i]) /\ trace[e][i].k = maxRetries[e]) =>
                      \A j \in (i + 1)..Len(trace[e]) :
                          trace[e][j].t \notin {"warn", "timer", "fired"}
            /\ (Terminated(e) => Len(Waited(e)) = Invocations(e) - 1)

(* C24 amended: with maxAttempts = n >= 1, in every reachable state the    *)
(* number of delays waited is at most n - 1 and at most the number of      *)
(* invocations, and at most the number of invocations minus one whenever   *)
(* an invocation is pending, a delay is being waited or the loop has been  *)
(* left; a failure on attempt n is never followed by a warning, a timer or *)
(* a delay, whatever its retryable flag; at termination the number of      *)
(* delays equals the number of invocations minus one.                      *)
C24_DelaysBelowInvocations ==
    \A e \in live :
        (Started(e) /\ maxRetries[e] >= 1) =>
            /\ Len(Waited(e)) <= maxRetries[e] - 1
            /\ Len(Waited(e)) <= Invocations(e)
            /\ (pc[e] # "loop" => Len(Waited(e)) <= Invocations(e) - 1)
            /\ \A i \in 1..Len(trace[e]) :
                  (IsFail(trace[e][i]) /\ trace[e][i].k = maxRetries[e]) =>
                      \A j \in (i + 1)..Len(trace[e]) :
                          trace[e][j].t \notin {"warn", "timer", "fired"}
            /\ (Terminated(e) => Len(Waited(e)) = Invocations(e) - 1)

\* An execution with n = 3 whose third attempt failed with a truthy flag and
\* which then threw, having waited twice.
C24_Witness ==
    \E e \in live :
        /\ maxRetries[e] = 3
        /\ pc[e] = "thrown"
        /\ Len(Settled(e)) = 3
        /\ RetryableFailure(Settled(e)[3])
        /\ Len(Waited(e)) = 2

---------------------------------------------------------------------------
(* C25: with maxAttempts below 1 withRetry never invokes the operation,    *)
(* never returns normally, and what it raises is the unset lastError       *)
(* (undefined), not an error produced by the operation.                    *)
C25_BelowOneThrowsUndefined ==
    \A e \in live :
        (Started(e) /\ maxRetries[e] < 1) =>
            /\ Invocations(e) = 0
            /\ Len(Settled(e)) = 0
            /\ pc[e] # "returned"
            /\ (Terminated(e) =>
                  /\ pc[e] = "thrown"
                  /\ outcome[e] = Undefined
                  /\ trace[e] = <<EvThrow(Undefined)>>)

\* withRetry(op, 0) and withRetry(op, -1) have thrown.
C25_Witness ==
    \E e \in live :
        /\ args[e].n \in {Num(0), Num(-1)}
        /\ pc[e] = "thrown"
        /\ outcome[e] = Undefined

---------------------------------------------------------------------------
\* The slots of getMultipleDownloadSignedUrls in a given status.
SlotsIn(st) == {i \in 1..Len(svc.slots) : svc.slots[i].st = st}

MultipleCalled == svc.fn = "getMultipleDownloadSignedUrls" /\ SvcCalled

(* C26: getMultipleDownloadSignedUrls is all-or-nothing: once signing has  *)
(* failed for any key the call has failed with a signing error (the first  *)
(* one) and never returns a map, even a partial one, whatever URLs were    *)
(* generated for the other keys.                                           *)
C26_AllOrNothing ==
    (MultipleCalled /\ SlotsIn("failed") # {}) =>
        /\ svc.pc = "thrown"
        /\ svc.out \in {svc.slots[i].v : i \in SlotsIn("failed")}
        /\ svc.out = FirstSdkError
        /\ svc.out.kind = "error"

\* Three keys: the first two were signed, the third failed and the call threw.
C26_Witness ==
    /\ MultipleCalled
    /\ Len(svc.keys) = 3
    /\ svc.done = <<1, 2, 3>>
    /\ svc.slots[1].st = "ok" /\ svc.slots[2].st = "ok"
    /\ svc.slots[3].st = "failed"
    /\ svc.pc = "thrown"

---------------------------------------------------------------------------
(* C29: getMultipleDownloadSignedUrls fans out: from the call on, the      *)
(* signing request of every key has been issued, so while nothing has      *)
(* settled all of them are in flight and each pending one can complete     *)
(* whatever the state of the others; the call returns only when every      *)
(* signing has succeeded, fails only when one has failed, and is pending   *)
(* otherwise.                                                              *)
C29_FansOut ==
    MultipleCalled =>
        /\ Len(svc.reqs) = Len(svc.keys)
        /\ Len(svc.slots) = Len(svc.keys)
        /\ \A i \in 1..Len(svc.keys) :
              /\ svc.reqs[i].call = "getSignedUrl"
              /\ Presign(svc.reqs[i]) =
                    ExpectedUrl(svc.bucket, svc.keys[i], svc.expiresIn)
              /\ svc.slots[i] = PendingSlot =>
                    (ENABLED SdkResolve(i) /\ \A err \in SdkErrors : ENABLED SdkReject(i, err))
        /\ svc.pc = "returned" <=> SlotsIn("ok") = 1..Len(svc.keys)
        /\ svc.pc = "thrown" <=> SlotsIn("failed") # {}
        /\ svc.pc = "pending" <=> (SlotsIn("failed") = {} /\ SlotsIn("pending") # {})

\* Three keys: the three signing requests are in flight and none has settled.
C29_Witness ==
    /\ MultipleCalled
    /\ Len(svc.keys) = 3
    /\ Len(svc.reqs) = 3
    /\ SlotsIn("pending") = {1, 2, 3}
    /\ svc.done = <<>>

---------------------------------------------------------------------------
(* C21: extractErrorInfo(error) returns a record whose name, message and   *)
(* retryable are error.name, error.message and error.$retryable, and whose *)
(* code and requestId are error.$metadata.httpStatusCode and               *)
(* error.$metadata.requestId; when the error has no $metadata it does not  *)
(* fail, and code and requestId are undefined.                             *)
C21_ExtractsFields ==
    util.fn = "extractErrorInfo" =>
        LET error == util.inp[1]
            hasMetadata == error.metadata.kind = "object"
        IN  /\ util.out # TypeError
            /\ util.out =
                 [name |-> error.name,
                  message |-> error.message,
                  retryable |-> error.retryable,
                  code |-> IF hasMetadata THEN error.metadata.httpStatusCode
                           ELSE Undefined,
                  requestId |-> IF hasMetadata THEN error.metadata.requestId
                                ELSE Undefined]

\* An error without $metadata: the record has its name and flag, and no code
\* or request id.
C21_Witness ==
    /\ util.fn = "extractErrorInfo"
    /\ util.inp[1].metadata = Undefined
    /\ util.inp[1].retryable = "true"
    /\ util.out.name = "NoSuchBucket"
    /\ util.out.retryable = "true"
    /\ util.out.code = Undefined
    /\ util.out.requestId = Undefined

---------------------------------------------------------------------------
\* The message has the Spanish heading of the missing variables.
SaysFaltantes(message) ==
    \E i \in 1..Len(message) : message[i] = "Variables de entorno faltantes: "

\* The message names the variable.
NamesVariable(message, name) == \E i \in 1..Len(message) : message[i] = name

(* C22: validateConfig returns normally when AWS_REGION is set to a        *)
(* non-empty value, and otherwise throws an error whose message includes   *)
(* 'Variables de entorno faltantes' and names AWS_REGION, even though      *)
(* awsConfig.region has fallen back to 'us-east-1'.                        *)
C22_ValidateConfig ==
    util.fn = "validateConfig" =>
        LET region == util.inp[1].env["AWS_REGION"]
            set == region.kind = "string" /\ region.val # ""
        IN  /\ set => util.out.kind = "returned"
            /\ ~set =>
                 /\ util.out.kind = "thrown"
                 /\ util.inp[1].region = Str("us-east-1")
                 /\ NamesVariable(util.out.error.message, "AWS_REGION")
                 /\ SaysFaltantes(util.out.error.message)

---------------------------------------------------------------------------
(* C23: isAwsError(error, errorCode) is true exactly when error.name       *)
(* equals errorCode, and false for every other errorCode.                  *)
C23_TrueIffNameMatches ==
    util.fn = "isAwsError" =>
        /\ util.out \in BOOLEAN
        /\ util.out <=> (util.inp[1].name = util.inp[2].val)

\* isAwsError({ name: 'NoSuchBucket', ... }, 'AccessDenied') is false.
C23_Witness ==
    /\ util.fn = "isAwsError"
    /\ util.inp[1].name = "NoSuchBucket"
    /\ util.inp[2] = Str("AccessDenied")
    /\ util.out = FALSE

---------------------------------------------------------------------------
(* Observations on main *)

\* The demonstrations main awaits, and the events they make in that order.
InOrder ==
    <<[t |-> "start", fn |-> "demonstrateS3"],
      [t |-> "end", fn |-> "demonstrateS3"],
      [t |-> "start", fn |-> "demonstrateDynamoDB"],
      [t |-> "end", fn |-> "demonstrateDynamoDB"],
      [t |-> "start", fn |-> "demonstrateAdvancedSignedUrls"],
      [t |-> "end", fn |-> "demonstrateAdvancedSignedUrls"]>>

IsTopLevel(ev) == ev.fn # "demonstrateSignedUrls"
TopLevelEvents == SelectSeq(app.events, IsTopLevel)

Entered(fn) == \E i \in 1..Len(app.events) : app.events[i] = [t |-> "start", fn |-> fn]
Ended(fn) == \E i \in 1..Len(app.events) : app.events[i] = [t |-> "end", fn |-> fn]

HasFailed(fn) == app.failed[fn].i # 0

\* The demonstration main runs after fn has returned.
NextDemo(fn) ==
    IF fn = "demonstrateAdvancedSignedUrls" THEN "none"
    ELSE IF fn = "demonstrateDynamoDB" THEN "demonstrateAdvancedSignedUrls"
    ELSE "demonstrateDynamoDB"

(* C27: main runs the S3, DynamoDB and advanced signed-URL demonstrations  *)
(* strictly in that order, each starting only after the previous one has   *)
(* returned; a failure inside a demonstration is caught and logged inside  *)
(* it, the demonstration returns and the later ones still run; the process *)
(* exits with status 1 only when validateConfig has thrown, before any     *)
(* demonstration.                                                          *)
C27_DemosInOrder ==
    /\ IsPrefix(TopLevelEvents, InOrder)
    /\ app.status = "running" => Len(TopLevelEvents) % 2 = 1
    /\ app.status = "done" => TopLevelEvents = InOrder
    /\ \A fn \in DemoFns :
          HasFailed(fn) =>
              /\ Ended(fn)
              /\ app.status \in {"running", "done"}
              /\ app.exit = Undefined
              /\ \E l \in 1..Len(app.log) : app.log[l].fn = fn
              /\ NextDemo(fn) # "none" => Entered(NextDemo(fn))
    /\ app.exit \in {Undefined, Num(1)}
    /\ app.exit = Num(1) <=> app.status = "exited"
    /\ app.status = "exited" =>
          /\ app.events = <<>>
          /\ ~(app.env["AWS_REGION"].kind = "string" /\ app.env["AWS_REGION"].val # "")
    /\ app.status \in {"running", "done"} =>
          (app.env["AWS_REGION"].kind = "string" /\ app.env["AWS_REGION"].val # "")

\* The three demonstrations each failed, and main ended without exiting.
C27_Witness ==
    /\ app.status = "done"
    /\ HasFailed("demonstrateS3")
    /\ HasFailed("demonstrateDynamoDB")
    /\ HasFailed("demonstrateAdvancedSignedUrls")
    /\ app.exit = Undefined

---------------------------------------------------------------------------
\* The demonstrations that upload to the bucket, and what each uploads.
S3Demos == {"demonstrateS3", "demonstrateSignedUrls", "demonstrateAdvancedSignedUrls"}

Uploads(fn) ==
    CASE fn = "demonstrateS3" -> {"test-file.txt"}
      [] fn = "demonstrateSignedUrls" ->
           {"signed-url-example.txt", "another-file.txt", "image.jpg"}
      [] fn = "demonstrateAdvancedSignedUrls" ->
           {"documents/report.pdf", "images/photo1.jpg", "images/photo2.jpg"}

BucketConfigured ==
    app.env["S3_BUCKET_NAME"].kind = "string" /\ app.env["S3_BUCKET_NAME"].val # ""

\* When no call of the demonstration failed, what it uploaded it has deleted
\* by the time it returns.
CleansUp(fn) ==
    (Ended(fn) /\ ~HasFailed(fn)) =>
        /\ app.deleted[fn] = app.uploaded[fn]
        /\ app.uploaded[fn] \cap app.objects = {}
        /\ (BucketConfigured /\ Entered(fn)) => app.uploaded[fn] = Uploads(fn)

(* C28 as stated: when every call succeeds, each object uploaded by        *)
(* demonstrateS3, demonstrateSignedUrls and demonstrateAdvancedSignedUrls  *)
(* has been deleted when that function returns; when a call fails          *)
(* part-way, no cleanup delete is made and the objects already uploaded    *)
(* remain.                                                                 *)
C28_Original ==
    \A fn \in S3Demos :
        /\ CleansUp(fn)
        /\ (Ended(fn) /\ HasFailed(fn)) =>
              /\ app.deleted[fn] = {}
              /\ app.uploaded[fn] \subseteq app.objects

(* C28 amended: when every call succeeds, each object uploaded by          *)
(* demonstrateS3, demonstrateSignedUrls and demonstrateAdvancedSignedUrls  *)
(* has been deleted when that function returns; when a call before the     *)
(* cleanup fails, no delete is made and the objects already uploaded       *)
(* remain; when a cleanup delete fails, the deletes before it have been    *)
(* made, that delete and the later ones have not, and the objects not yet  *)
(* deleted remain.                                                         *)
C28_CleanupUnlessFailed ==
    \A fn \in S3Demos :
        /\ CleansUp(fn)
        /\ (Ended(fn) /\ HasFailed(fn) /\ app.failed[fn].op # "deleteObject") =>
              /\ app.deleted[fn] = {}
              /\ app.uploaded[fn] \subseteq app.objects
        /\ (Ended(fn) /\ HasFailed(fn) /\ app.failed[fn].op = "deleteObject") =>
              /\ app.uploaded[fn] = Uploads(fn)
              /\ app.deleted[fn] \subseteq app.uploaded[fn]
              /\ app.failed[fn].key \in app.uploaded[fn] \ app.deleted[fn]
              /\ app.deleted[fn] \cap app.objects = {}
              /\ (app.uploaded[fn] \ app.deleted[fn]) \subseteq app.objects

\* demonstrateSignedUrls failed on its second delete, having deleted one of
\* its three objects, and demonstrateAdvancedSignedUrls deleted all of its own.
C28_Witness ==
    /\ app.status = "done"
    /\ app.failed["demonstrateSignedUrls"].op = "deleteObject"
    /\ app.failed["demonstrateSignedUrls"].key = "another-file.txt"
    /\ app.deleted["demonstrateSignedUrls"] = {"signed-url-example.txt"}
    /\ ~HasFailed("demonstrateAdvancedSignedUrls")
    /\ app.uploaded["demonstrateAdvancedSignedUrls"] =
          {"documents/report.pdf", "images/photo1.jpg", "images/photo2.jpg"}
    /\ app.deleted["demonstrateAdvancedSignedUrls"] =
          app.uploaded["demonstrateAdvancedSignedUrls"]

====
